---- MODULE Spec2Model ----
(***************************************************************************)
(* Model of src/src/services/chatAPI.ts: the chat gateway (ApiService),    *)
(* the identity lookup (fetchUserEmailFromProfile) and the token rotation  *)
(* and auth-failure helpers.  One operation is in flight at a time; an     *)
(* action is one synchronous segment of a handler (the code between two    *)
(* awaits) or one network event (a fetch promise settling).  The message   *)
(* text, guidance_filter, message_index and feedback_type are carried      *)
(* through unchanged by the code and are left out of the requests.         *)
(***************************************************************************)
EXTENDS Naturals, Sequences, FiniteSets, TLC

(* ---------------- bounds and value domains ---------------- *)

\* longest conversation_history an upstream body carries
MaxHist == 1

Msgs == {"m1", "m2"}

RECURSIVE SeqsUpTo(_, _)
SeqsUpTo(S, n) ==
    IF n = 0 THEN {<<>>}
    ELSE LET shorter == SeqsUpTo(S, n - 1)
         IN  shorter \cup {Append(s, x) : s \in shorter, x \in S}

Histories == SeqsUpTo(Msgs, MaxHist)

\* JS null / undefined and the "not serialized" marker of a request field
Null == "<null>"
Undefined == "<undefined>"
Omitted == "<omitted>"

\* JS truthiness of a string-or-null-or-undefined value
Truthy(s) == s \notin {"", Null, Undefined}

\* a || b on such values
Or(a, b) == IF Truthy(a) THEN a ELSE b

\* stored token values; NoToken is "auth_token absent from localStorage"
NoToken == "<no token>"
Tokens == {"T1", "T2"}
\* value of the x-access-token response header; NoHeader is headers.get() = null
NoHeader == "<no header>"
Headers == Tokens \cup {NoHeader}

Statuses == {200, 401, 403, 503}

\* Response.ok
Ok(status) == status >= 200 /\ status <= 299

\* texts are sequences of chunks; <<>> is the empty string
Texts == {<<>>, <<"ok">>}
SessionIds == {"", "s1", "s2"}

JsNull == [type |-> "null"]
JsUndefined == [type |-> "undefined"]

\* what response.json() can resolve to on a chat endpoint
ChatObjects ==
    [type : {"object"}, response : Texts,
     conversation_history : Histories, session_id : SessionIds]

\* what /auth/me can resolve to
ProfileObjects == [type : {"object"}, email : {"", "u1"}]

\* response.json() rejects (the body is not JSON)
InvalidJson == [type |-> "invalid"]
\* the body of a response whose json() is never called
Unread == [type |-> "unread"]

\* truthiness of a parsed JSON value
TruthyJson(v) == v.type = "object"

\* a rejected fetch / json(): the error thrown, as String(e) prints it
NetworkError == [name |-> "TypeError", message |-> "Failed to fetch"]
ParseError == [name |-> "SyntaxError", message |-> "Unexpected token"]

\* String(e) of an Error: "<name>: <message>"
StringOf(e) == <<e.name, ": ", e.message>>

\* settled and unsettled promises of a fetch
NoPromise == [state |-> "null"]
Pending == [state |-> "pending"]
Consumed == [state |-> "consumed"]
Rejected == [state |-> "rejected", reason |-> NetworkError]
Fulfilled(r) == [state |-> "fulfilled", value |-> r]

\* the responses an endpoint can give: the body matters on 2xx only
ResponsesWith(bodies) ==
    [status : {s \in Statuses : Ok(s)}, header : Headers, body : bodies]
    \cup [status : {s \in Statuses : ~Ok(s)}, header : Headers, body : {Unread}]

ChatResponses == ResponsesWith(ChatObjects \cup {JsNull, InvalidJson})
ProfileResponses == ResponsesWith(ProfileObjects \cup {JsNull, InvalidJson})

Settled(responses) == {Fulfilled(r) : r \in responses} \cup {Rejected}

(* ---------------- the helpers of chatAPI.ts ---------------- *)

\* getAccessToken(): the stored auth_token
GetAccessToken(tok) == tok

\* the mutation of UpdateAccessTokenFromResponse that rotates on a success
\* status only
RotateOnSuccessOnly(tok, response) ==
    IF response.header # NoHeader /\ Ok(response.status) THEN response.header ELSE tok

\* updateAccessTokenFromResponse: adopt the x-access-token header if present
UpdateAccessTokenFromResponse(tok, response) ==
    IF response.header # NoHeader THEN response.header ELSE tok

\* the test of handleAuthError
AuthFailure(response) == response.status = 401 \/ response.status = 403

\* the mutation of HandleAuthErrorToken that clears the token on 401 only
ClearOn401Only(tok, response) ==
    IF response.status = 401 THEN NoToken ELSE tok

\* handleAuthError, its effect on the stored token: removeItem on 401/403
HandleAuthErrorToken(tok, response) ==
    IF AuthFailure(response) THEN NoToken ELSE tok

\* handleAuthError, its broadcast: one auth:logout event on 401/403 (the try
\* arm and its fallback dispatch the same single event)
HandleAuthErrorEvents(evs, response) ==
    IF AuthFailure(response)
    THEN Append(evs, [type |-> "auth:logout", status |-> response.status])
    ELSE evs

\* the mutation of ProcessResponseToken that checks for auth failure first
\* and rotates afterwards
CheckThenRotate(tok, response) ==
    UpdateAccessTokenFromResponse(HandleAuthErrorToken(tok, response), response)

\* "updateAccessTokenFromResponse(response); handleAuthError(response);"
\* as every operation calls them: the stored token afterwards
ProcessResponseToken(tok, response) ==
    HandleAuthErrorToken(UpdateAccessTokenFromResponse(tok, response), response)

\* fetchUserEmailFromProfile once its fetch has settled: the email or null
EmailOf(promise) ==
    IF promise.state = "rejected" THEN Null
    ELSE IF ~Ok(promise.value.status) THEN Null
    ELSE IF promise.value.body.type # "object" THEN Null
    ELSE Or(promise.value.body.email, Null)

\* new Error(`HTTP error! status: ${response.status}`)
HttpError(status) ==
    [name |-> "Error", message |-> <<"HTTP error! status: ", ToString(status)>>]

NoResult == [kind |-> "none"]
Return(v) == [kind |-> "return", value |-> v]
Throw(e) == [kind |-> "throw", error |-> e]

(* ---------------- sendMessage: routing and combination ---------------- *)

\* the mutation of Endpoints that reads the flag the wrong way round
EndpointsInverted(onlyUseRuh) ==
    IF onlyUseRuh = Undefined THEN {"ruh", "ugc"}
    ELSE IF onlyUseRuh = "true" THEN {"ugc"}
    ELSE {"ruh"}

\* the chat endpoints the non-undergraduate path of sendMessage fetches
Endpoints(onlyUseRuh) ==
    IF onlyUseRuh = Undefined THEN {"ruh", "ugc"}
    ELSE IF onlyUseRuh = "true" THEN {"ruh"}
    ELSE {"ugc"}

SideName(side) == IF side = "ruh" THEN "RUH" ELSE "UGC"

\* the placeholder for a non-success status
FailedPlaceholder(side, status, sessionId) ==
    [type |-> "object",
     response |-> <<SideName(side), " request failed: ", ToString(status)>>,
     conversation_history |-> <<>>,
     session_id |-> sessionId]

\* the placeholder for an exception caught while awaiting or reading a side
ErrorPlaceholder(side, e, sessionId) ==
    [type |-> "object",
     response |-> <<SideName(side), " request error: ">> \o StringOf(e),
     conversation_history |-> <<>>,
     session_id |-> sessionId]

\* v?.response, v?.conversation_history, v?.session_id of a parsed value
ResponseOf(v) == IF v.type = "object" THEN v.response ELSE <<>>
HistoryOf(v) == IF v.type = "object" THEN v.conversation_history ELSE <<>>
SessionOf(v) == IF v.type = "object" THEN v.session_id ELSE Undefined

\* text || "(no response)"
TextOr(t, default) == IF t # <<>> THEN t ELSE default

\* the object built when neither early return is taken
Combined(ruhJson, ugcJson, sessionId) ==
    [type |-> "object",
     response |-> <<"[RUH]\n">> \o TextOr(ResponseOf(ruhJson), <<"(no response)">>)
                  \o <<"\n\n[UGC]\n">>
                  \o TextOr(ResponseOf(ugcJson), <<"(no response)">>),
     conversation_history |-> HistoryOf(ruhJson) \o HistoryOf(ugcJson),
     session_id |-> Or(Or(SessionOf(ruhJson), SessionOf(ugcJson)), sessionId)]

\* what sendMessage returns from ruhRespJson and ugcRespJson
Combine(ruhJson, ugcJson, sessionId) ==
    IF TruthyJson(ruhJson) /\ ~TruthyJson(ugcJson) THEN ruhJson
    ELSE IF TruthyJson(ugcJson) /\ ~TruthyJson(ruhJson) THEN ugcJson
    ELSE Combined(ruhJson, ugcJson, sessionId)

(* ---------------- requests ---------------- *)

\* a URL query parameter appended only when its value is truthy
QueryParam(v) == IF Truthy(v) THEN v ELSE Omitted

\* a JSON body field: JSON.stringify drops an undefined value, keeps null
BodyField(v) == IF v = Undefined THEN Omitted ELSE v

Request(url, tok, sessionId, userId) ==
    [url |-> url, auth |-> GetAccessToken(tok),
     session_id |-> sessionId, user_id |-> userId]

\* the operations that call fetchUserEmailFromProfile when userId is falsy
ResolvingOps ==
    {"createNewChatSession", "getChatHistory", "getChatSessions", "routeLatest"}

\* whether the invocation o calls fetchUserEmailFromProfile
Resolves(o) ==
    \/ o.name = "sendMessage"
    \/ o.name \in ResolvingOps /\ ~Truthy(o.userId)

\* the operations that ask userRoleUtils.isUndergraduate
ClassifierAnswers(o) ==
    IF o.name \in {"sendMessage", "routeLatest"} THEN BOOLEAN ELSE {FALSE}

\* the request of a uniform forwarding operation, or of the undergraduate
\* path of sendMessage
MainRequest(o, identity, ug, tok) ==
    CASE o.name = "sendMessage" ->
           Request("ruh/chat", tok, o.sessionId, identity)
      [] o.name = "createNewChatSession" ->
           Request("chat/session", tok, Omitted, BodyField(identity))
      [] o.name = "sendFeedback" ->
           Request("feedback", tok, o.sessionId, BodyField(o.userId))
      [] o.name = "getChatHistory" ->
           Request("chat/{sessionId}/history", tok, o.sessionId, QueryParam(identity))
      [] o.name = "healthCheck" ->
           Request("health", tok, Omitted, Omitted)
      [] o.name = "getChatSessions" ->
           Request("chat/sessions", tok, Omitted, QueryParam(identity))
      [] o.name = "routeLatest" ->
           Request(IF ug THEN "ruh/chat/route" ELSE "ugc/chat/route", tok,
                   QueryParam(o.sessionId), QueryParam(identity))

\* the POST to /ruh/chat or /ugc/chat of the non-undergraduate path
ChatRequest(side, o, identity, tok) ==
    Request(IF side = "ruh" THEN "ruh/chat" ELSE "ugc/chat", tok, o.sessionId, identity)

(* ---------------- state ---------------- *)

VARIABLES
    token,          \* localStorage auth_token
    events,         \* auth:logout events broadcast since the operation began
    pc,             \* where the operation in flight is suspended
    op,             \* the operation in flight and its arguments
    prior,          \* the stored token when the operation was invoked
    profileCalls,   \* calls of fetchUserEmailFromProfile by the operation
    userEmail,      \* userEmail / resolvedUser
    isUG,           \* the classifier's answer
    sent,           \* the requests fetched by the operation, in order
    mePromise,      \* fetch of /auth/me
    responsePromise,\* fetch of a uniform operation or of the undergraduate path
    ruhPromise,
    ugcPromise,
    ruhRespJson,
    ugcRespJson,
    settled,        \* the chat fetches that have settled, in order
    log,            \* the response-handling steps executed, in order
    result          \* what the operation returned or threw

vars == <<token, events, pc, op, prior, profileCalls, userEmail, isUG, sent,
          mePromise, responsePromise, ruhPromise, ugcPromise, ruhRespJson,
          ugcRespJson, settled, log, result>>

NoOp == [name |-> "none", sessionId |-> Omitted, userId |-> Undefined,
         onlyUseRuh |-> Undefined]

\* sessionId arguments: the default, and the empty string
CallerSessions == {"default", ""}
UserIds == {Undefined, "", "u2"}
Flags == {Undefined, "true", "false"}

Init ==
    /\ token \in Tokens \cup {NoToken}
    /\ events = <<>>
    /\ pc = "idle"
    /\ op = NoOp
    /\ prior = token
    /\ profileCalls = 0
    /\ userEmail = Null
    /\ isUG = FALSE
    /\ sent = <<>>
    /\ mePromise = NoPromise
    /\ responsePromise = NoPromise
    /\ ruhPromise = NoPromise
    /\ ugcPromise = NoPromise
    /\ ruhRespJson = JsNull
    /\ ugcRespJson = JsNull
    /\ settled = <<>>
    /\ log = <<>>
    /\ result = NoResult

(* ---------------- invocation and identity resolution ---------------- *)

\* the mutation of UgcTurn in which the UGC response is handled as soon as
\* it has settled
UgcTurnOnSettle(p) == p \in {"ruh", "ruhJson", "ugc"}

\* where sendMessage awaits ugcPromise
UgcTurn(p) == p = "ugc"

\* the synchronous segment that follows identity resolution: classify, build
\* the request(s) with the token stored now, fetch, and suspend
Proceed(o, identity, ug, sofar) ==
    /\ userEmail' = identity
    /\ isUG' = ug
    /\ IF o.name # "sendMessage" \/ ug
       THEN /\ sent' = Append(sofar, MainRequest(o, identity, ug, token))
            /\ responsePromise' = Pending
            /\ ruhPromise' = NoPromise
            /\ ugcPromise' = NoPromise
            /\ pc' = "call"
       ELSE LET e == Endpoints(o.onlyUseRuh)
                ruhReq == IF "ruh" \in e
                          THEN <<ChatRequest("ruh", o, identity, token)>> ELSE <<>>
                ugcReq == IF "ugc" \in e
                          THEN <<ChatRequest("ugc", o, identity, token)>> ELSE <<>>
            IN  /\ sent' = sofar \o ruhReq \o ugcReq
                /\ responsePromise' = NoPromise
                /\ ruhPromise' = IF "ruh" \in e THEN Pending ELSE NoPromise
                /\ ugcPromise' = IF "ugc" \in e THEN Pending ELSE NoPromise
                /\ pc' = IF "ruh" \in e THEN "ruh" ELSE "ugc"

\* an operation is called: up to its first await
Invoke(o) ==
    /\ pc = "idle"
    /\ op' = o
    /\ prior' = token
    /\ events' = <<>>
    /\ settled' = <<>>
    /\ log' = <<>>
    /\ result' = NoResult
    /\ ruhRespJson' = JsNull
    /\ ugcRespJson' = JsNull
    /\ UNCHANGED token
    /\ IF Resolves(o)
       THEN /\ profileCalls' = 1
            /\ IF GetAccessToken(token) = NoToken
               THEN \* fetchUserEmailFromProfile returns null without a request
                    /\ mePromise' = NoPromise
                    /\ \E ug \in ClassifierAnswers(o) : Proceed(o, Null, ug, <<>>)
               ELSE /\ mePromise' = Pending
                    /\ sent' = <<Request("auth/me", token, Omitted, Omitted)>>
                    /\ pc' = "me"
                    /\ userEmail' = Null
                    /\ isUG' = FALSE
                    /\ responsePromise' = NoPromise
                    /\ ruhPromise' = NoPromise
                    /\ ugcPromise' = NoPromise
       ELSE /\ profileCalls' = 0
            /\ mePromise' = NoPromise
            /\ \E ug \in ClassifierAnswers(o) : Proceed(o, o.userId, ug, <<>>)

SendMessage ==
    \E sid \in CallerSessions, flag \in Flags :
        Invoke([name |-> "sendMessage", sessionId |-> sid, userId |-> Undefined,
                onlyUseRuh |-> flag])

CreateNewChatSession ==
    \E uid \in UserIds :
        Invoke([name |-> "createNewChatSession", sessionId |-> Omitted,
                userId |-> uid, onlyUseRuh |-> Undefined])

SendFeedback ==
    \E sid \in CallerSessions, uid \in UserIds :
        Invoke([name |-> "sendFeedback", sessionId |-> sid, userId |-> uid,
                onlyUseRuh |-> Undefined])

GetChatHistory ==
    \E sid \in CallerSessions, uid \in UserIds :
        Invoke([name |-> "getChatHistory", sessionId |-> sid, userId |-> uid,
                onlyUseRuh |-> Undefined])

HealthCheck ==
    Invoke([name |-> "healthCheck", sessionId |-> Omitted, userId |-> Undefined,
            onlyUseRuh |-> Undefined])

GetChatSessions ==
    \E uid \in UserIds :
        Invoke([name |-> "getChatSessions", sessionId |-> Omitted, userId |-> uid,
                onlyUseRuh |-> Undefined])

RouteLatest ==
    \E sid \in CallerSessions, uid \in UserIds :
        Invoke([name |-> "routeLatest", sessionId |-> sid, userId |-> uid,
                onlyUseRuh |-> Undefined])

\* the fetch of /auth/me settles
ProfileSettles ==
    /\ pc = "me"
    /\ mePromise = Pending
    /\ \E p \in Settled(ProfileResponses) : mePromise' = p
    /\ UNCHANGED <<token, events, pc, op, prior, profileCalls, userEmail,
                   isUG, sent, responsePromise, ruhPromise, ugcPromise,
                   ruhRespJson, ugcRespJson, settled, log, result>>

\* fetchUserEmailFromProfile resumes and returns; its caller goes on to its
\* own fetch.  The response is neither rotated from nor checked for 401/403.
ProfileResumes ==
    /\ pc = "me"
    /\ mePromise.state \in {"fulfilled", "rejected"}
    /\ mePromise' = Consumed
    /\ \E ug \in ClassifierAnswers(op) : Proceed(op, EmailOf(mePromise), ug, sent)
    /\ UNCHANGED <<token, events, op, prior, profileCalls, ruhRespJson,
                   ugcRespJson, settled, log, result>>

(* ---------------- uniform operations and the undergraduate path ---------------- *)

\* the mutation of Outcome that omits the "if (!response.ok) throw"
OutcomeWithoutStatusTest(o, response) ==
    IF o.name = "sendFeedback" THEN Return(JsUndefined)
    ELSE IF response.body = InvalidJson THEN Throw(ParseError)
    ELSE Return(response.body)

\* what the operation returns or throws once its response has been through
\* rotation and the auth check
Outcome(o, response) ==
    IF ~Ok(response.status) THEN Throw(HttpError(response.status))
    ELSE IF o.name = "sendFeedback" THEN Return(JsUndefined)
    ELSE IF response.body = InvalidJson THEN Throw(ParseError)
    ELSE Return(response.body)

\* the operation's fetch settles
ResponseSettles ==
    /\ pc = "call"
    /\ responsePromise = Pending
    /\ \E p \in Settled(ChatResponses) : responsePromise' = p
    /\ UNCHANGED <<token, events, pc, op, prior, profileCalls, userEmail,
                   isUG, sent, mePromise, ruhPromise, ugcPromise, ruhRespJson,
                   ugcRespJson, settled, log, result>>

\* the operation resumes: rotation, auth check, then the status test and the
\* body; a rejected fetch is rethrown by the catch block
ResponseResumes ==
    /\ pc = "call"
    /\ responsePromise.state \in {"fulfilled", "rejected"}
    /\ IF responsePromise.state = "rejected"
       THEN /\ result' = Throw(responsePromise.reason)
            /\ log' = Append(log, <<"call", "error">>)
            /\ UNCHANGED <<token, events>>
       ELSE LET r == responsePromise.value
            IN  /\ token' = ProcessResponseToken(token, r)
                /\ events' = HandleAuthErrorEvents(events, r)
                /\ result' = Outcome(op, r)
                /\ log' = log \o <<<<"call", "rotate">>, <<"call", "auth">>>>
                              \o (IF Ok(r.status) /\ op.name # "sendFeedback"
                                  THEN <<<<"call", "body">>>> ELSE <<>>)
    /\ pc' = "done"
    /\ UNCHANGED <<op, prior, profileCalls, userEmail, isUG, sent, mePromise,
                   responsePromise, ruhPromise, ugcPromise, ruhRespJson,
                   ugcRespJson, settled>>

(* ---------------- sendMessage, the non-undergraduate path ---------------- *)

RuhSettles ==
    /\ pc \notin {"idle", "done"}
    /\ ruhPromise = Pending
    /\ \E p \in Settled(ChatResponses) : ruhPromise' = p
    /\ settled' = Append(settled, "ruh")
    /\ UNCHANGED <<token, events, pc, op, prior, profileCalls, userEmail, isUG,
                   sent, mePromise, responsePromise, ugcPromise, ruhRespJson,
                   ugcRespJson, log, result>>

UgcSettles ==
    /\ pc \notin {"idle", "done"}
    /\ ugcPromise = Pending
    /\ \E p \in Settled(ChatResponses) : ugcPromise' = p
    /\ settled' = Append(settled, "ugc")
    /\ UNCHANGED <<token, events, pc, op, prior, profileCalls, userEmail, isUG,
                   sent, mePromise, responsePromise, ruhPromise, ruhRespJson,
                   ugcRespJson, log, result>>

\* the value a side's block leaves in its variable once the body is read
BodyResult(side, body, sessionId) ==
    IF body = InvalidJson THEN ErrorPlaceholder(side, ParseError, sessionId)
    ELSE body

\* after the RUH block: the UGC block if ugcPromise was created, else the return
AfterRuh(ruhJson) ==
    IF ugcPromise = NoPromise
    THEN /\ pc' = "done"
         /\ result' = Return(Combine(ruhJson, ugcRespJson, op.sessionId))
    ELSE /\ pc' = "ugc"
         /\ UNCHANGED result

\* "await ruhPromise" resumes: rotation, auth check, status test
RuhResumes ==
    /\ pc = "ruh"
    /\ ruhPromise.state \in {"fulfilled", "rejected"}
    /\ IF ruhPromise.state = "rejected"
       THEN /\ ruhRespJson' = ErrorPlaceholder("ruh", ruhPromise.reason, op.sessionId)
            /\ log' = Append(log, <<"ruh", "error">>)
            /\ AfterRuh(ruhRespJson')
            /\ UNCHANGED <<token, events>>
       ELSE LET r == ruhPromise.value
            IN  /\ token' = ProcessResponseToken(token, r)
                /\ events' = HandleAuthErrorEvents(events, r)
                /\ log' = log \o <<<<"ruh", "rotate">>, <<"ruh", "auth">>>>
                /\ IF Ok(r.status)
                   THEN /\ pc' = "ruhJson"
                        /\ UNCHANGED <<ruhRespJson, result>>
                   ELSE /\ ruhRespJson' = FailedPlaceholder("ruh", r.status, op.sessionId)
                        /\ AfterRuh(ruhRespJson')
    /\ UNCHANGED <<op, prior, profileCalls, userEmail, isUG, sent, mePromise,
                   responsePromise, ruhPromise, ugcPromise, ugcRespJson,
                   settled>>

\* "await ruhResp.json()" resumes
RuhBody ==
    /\ pc = "ruhJson"
    /\ ruhRespJson' = BodyResult("ruh", ruhPromise.value.body, op.sessionId)
    /\ log' = Append(log, <<"ruh", "body">>)
    /\ AfterRuh(ruhRespJson')
    /\ UNCHANGED <<token, events, op, prior, profileCalls, userEmail, isUG,
                   sent, mePromise, responsePromise, ruhPromise, ugcPromise,
                   ugcRespJson, settled>>

\* "await ugcPromise" resumes
UgcResumes ==
    /\ UgcTurn(pc)
    /\ ugcPromise.state \in {"fulfilled", "rejected"}
    /\ IF ugcPromise.state = "rejected"
       THEN /\ ugcRespJson' = ErrorPlaceholder("ugc", ugcPromise.reason, op.sessionId)
            /\ log' = Append(log, <<"ugc", "error">>)
            /\ pc' = "done"
            /\ result' = Return(Combine(ruhRespJson, ugcRespJson', op.sessionId))
            /\ UNCHANGED <<token, events>>
       ELSE LET r == ugcPromise.value
            IN  /\ token' = ProcessResponseToken(token, r)
                /\ events' = HandleAuthErrorEvents(events, r)
                /\ log' = log \o <<<<"ugc", "rotate">>, <<"ugc", "auth">>>>
                /\ IF Ok(r.status)
                   THEN /\ pc' = "ugcJson"
                        /\ UNCHANGED <<ugcRespJson, result>>
                   ELSE /\ ugcRespJson' = FailedPlaceholder("ugc", r.status, op.sessionId)
                        /\ pc' = "done"
                        /\ result' = Return(Combine(ruhRespJson, ugcRespJson', op.sessionId))
    /\ UNCHANGED <<op, prior, profileCalls, userEmail, isUG, sent, mePromise,
                   responsePromise, ruhPromise, ugcPromise, ruhRespJson,
                   settled>>

\* "await ugcResp.json()" resumes, and sendMessage returns
UgcBody ==
    /\ pc = "ugcJson"
    /\ ugcRespJson' = BodyResult("ugc", ugcPromise.value.body, op.sessionId)
    /\ log' = Append(log, <<"ugc", "body">>)
    /\ pc' = "done"
    /\ result' = Return(Combine(ruhRespJson, ugcRespJson', op.sessionId))
    /\ UNCHANGED <<token, events, op, prior, profileCalls, userEmail, isUG,
                   sent, mePromise, responsePromise, ruhPromise, ugcPromise,
                   ruhRespJson, settled>>

\* the caller has the result; the operation's locals are gone
Finish ==
    /\ pc = "done"
    /\ pc' = "idle"
    /\ op' = NoOp
    /\ prior' = token
    /\ events' = <<>>
    /\ profileCalls' = 0
    /\ userEmail' = Null
    /\ isUG' = FALSE
    /\ sent' = <<>>
    /\ mePromise' = NoPromise
    /\ responsePromise' = NoPromise
    /\ ruhPromise' = NoPromise
    /\ ugcPromise' = NoPromise
    /\ ruhRespJson' = JsNull
    /\ ugcRespJson' = JsNull
    /\ settled' = <<>>
    /\ log' = <<>>
    /\ result' = NoResult
    /\ UNCHANGED token

Next ==
    \/ SendMessage
    \/ CreateNewChatSession
    \/ SendFeedback
    \/ GetChatHistory
    \/ HealthCheck
    \/ GetChatSessions
    \/ RouteLatest
    \/ ProfileSettles
    \/ ProfileResumes
    \/ ResponseSettles
    \/ ResponseResumes
    \/ RuhSettles
    \/ UgcSettles
    \/ RuhResumes
    \/ RuhBody
    \/ UgcResumes
    \/ UgcBody
    \/ Finish

Spec == Init /\ [][Next]_vars

(* ---------------- vocabulary of the properties ---------------- *)

\* the number of requests the operation in flight has sent to url
Count(url) == Cardinality({i \in DOMAIN sent : sent[i].url = url})

\* the operation in flight is past identity resolution and classification
Classified == pc \notin {"idle", "me"}

InSendMessage == op.name = "sendMessage" /\ Classified

\* sendMessage on its non-undergraduate path
NonUndergraduate == InSendMessage /\ ~isUG

\* sendMessage querying both endpoints
Dual == NonUndergraduate /\ op.onlyUseRuh = Undefined

Logout(status) == [type |-> "auth:logout", status |-> status]

\* this step begins the handling of the response of the given call
\* ("call": a uniform operation or the undergraduate path)
Handling(side) ==
    /\ Len(log') > Len(log)
    /\ log'[Len(log) + 1] = <<side, "rotate">>

\* the response being handled in such a step
HandledResponse(side) ==
    IF side = "ruh" THEN ruhPromise.value
    ELSE IF side = "ugc" THEN ugcPromise.value
    ELSE responsePromise.value

\* this step is fetchUserEmailFromProfile resuming with a response
HandlingProfile == pc = "me" /\ pc' # "me" /\ mePromise.state = "fulfilled"

(* ---------------- C1 ---------------- *)

\* C1: the chat endpoints sendMessage calls depend on (role, onlyUseRuh) only:
\* an undergraduate gets exactly one RUH call and no UGC call whatever the
\* flag; a non-undergraduate gets one RUH call for true, one UGC call for
\* false, one call to each for undefined; and no endpoint is called twice,
\* whatever the responses are (the counts are final from dispatch to return).
C1_Routing ==
    /\ op.name = "sendMessage" /\ ~Classified =>
          Count("ruh/chat") = 0 /\ Count("ugc/chat") = 0
    /\ InSendMessage =>
          /\ Count("ruh/chat") =
                (IF isUG \/ op.onlyUseRuh \in {Undefined, "true"} THEN 1 ELSE 0)
          /\ Count("ugc/chat") =
                (IF ~isUG /\ op.onlyUseRuh \in {Undefined, "false"} THEN 1 ELSE 0)

\* an undergraduate passed onlyUseRuh=false has got an answer from RUH alone
C1_Witness ==
    /\ pc = "done" /\ InSendMessage /\ isUG /\ op.onlyUseRuh = "false"
    /\ Count("ruh/chat") = 1 /\ Count("ugc/chat") = 0
    /\ responsePromise.state = "fulfilled"

(* ---------------- C2 ---------------- *)

\* C2: whenever a gateway operation handles a response that carries
\* x-access-token and has status 401 or 403, then, whatever token was stored,
\* afterwards no token is stored (the header's value is not kept) and exactly
\* one auth:logout event with that status has been added to the broadcasts.
C2_RotationBeforeClear ==
    [][\A side \in {"call", "ruh", "ugc"} :
          (/\ Handling(side)
           /\ HandledResponse(side).header # NoHeader
           /\ AuthFailure(HandledResponse(side)))
          => /\ token' = NoToken
             /\ events' = Append(events, Logout(HandledResponse(side).status))]_vars

\* a 403 carrying x-access-token: T2 has been handled while T1 was stored
C2_Witness ==
    /\ pc = "done"
    /\ responsePromise.state = "fulfilled"
    /\ responsePromise.value.header = "T2"
    /\ responsePromise.value.status = 403
    /\ prior = "T1"
    /\ token = NoToken
    /\ events = <<Logout(403)>>

(* ---------------- C3 ---------------- *)

\* what C3 asks of a step that handles response r
C3_Effect(r) ==
    /\ AuthFailure(r) => token' = NoToken /\ events' = Append(events, Logout(r.status))
    /\ r.header # NoHeader /\ ~AuthFailure(r) => token' = r.header

\* C3 as stated: every response received by any call, the identity lookup
\* included, clears the token and broadcasts auth:logout on 401/403, and
\* replaces the token when it carries x-access-token.
C3_EveryCall ==
    [][/\ \A side \in {"call", "ruh", "ugc"} :
              Handling(side) => C3_Effect(HandledResponse(side))
       /\ HandlingProfile => C3_Effect(mePromise.value)]_vars

\* C3 amended: the responses of the gateway operations' own calls (both chat
\* endpoints, create session, feedback, history, health, sessions list, route
\* latest) clear the token and broadcast auth:logout on 401/403 and replace
\* the token when they carry x-access-token; the response of the identity
\* lookup changes neither the stored token nor the broadcasts.
C3_GatewayCalls ==
    [][/\ \A side \in {"call", "ruh", "ugc"} :
              Handling(side) => C3_Effect(HandledResponse(side))
       /\ pc = "me" => token' = token /\ events' = events]_vars

\* after an identity lookup made with T1, the operation's own call got a 401
C3_Witness ==
    /\ pc = "done"
    /\ op.name = "getChatHistory"
    /\ profileCalls = 1
    /\ sent[1].url = "auth/me"
    /\ prior = "T1"
    /\ responsePromise.state = "fulfilled"
    /\ responsePromise.value.status = 401
    /\ token = NoToken
    /\ events = <<Logout(401)>>

(* ---------------- vocabulary of the sendMessage properties ---------------- *)

Requested(side) == side \in Endpoints(op.onlyUseRuh)

PromiseOf(side) == IF side = "ruh" THEN ruhPromise ELSE ugcPromise
JsonOf(side) == IF side = "ruh" THEN ruhRespJson ELSE ugcRespJson

\* the side's call failed: rejected, a non-success status, or a body that
\* could not be read
Failed(side) ==
    \/ PromiseOf(side).state = "rejected"
    \/ /\ PromiseOf(side).state = "fulfilled"
       /\ \/ ~Ok(PromiseOf(side).value.status)
          \/ PromiseOf(side).value.body = InvalidJson

\* the side's result as the specification describes it: the parsed body, or
\* the placeholder for the failure
SideResult(side) ==
    LET p == PromiseOf(side)
    IN  IF p.state = "rejected"
        THEN [type |-> "object",
              response |-> <<SideName(side), " request error: ">> \o StringOf(p.reason),
              conversation_history |-> <<>>,
              session_id |-> op.sessionId]
        ELSE IF ~Ok(p.value.status)
        THEN [type |-> "object",
              response |-> <<SideName(side), " request failed: ", ToString(p.value.status)>>,
              conversation_history |-> <<>>,
              session_id |-> op.sessionId]
        ELSE IF p.value.body = InvalidJson
        THEN [type |-> "object",
              response |-> <<SideName(side), " request error: ">> \o StringOf(ParseError),
              conversation_history |-> <<>>,
              session_id |-> op.sessionId]
        ELSE p.value.body

\* the text of a side in the combined response; a body without text is shown
\* as "(no response)"
SideText(side) ==
    IF SideResult(side).type = "object" /\ SideResult(side).response # <<>>
    THEN SideResult(side).response
    ELSE <<"(no response)">>

CombinedText == <<"[RUH]\n">> \o SideText("ruh") \o <<"\n\n[UGC]\n">> \o SideText("ugc")

\* a value is a Combined object: its text starts with the RUH header
IsCombined(v) ==
    /\ v.type = "object"
    /\ Len(v.response) > 0
    /\ v.response[1] = "[RUH]\n"

\* the first non-empty of the RUH session_id, the UGC session_id and the
\* caller's sessionId
FirstSession ==
    LET ids == <<SessionOf(SideResult("ruh")), SessionOf(SideResult("ugc"))>>
    IN  IF Truthy(ids[1]) THEN ids[1]
        ELSE IF Truthy(ids[2]) THEN ids[2]
        ELSE op.sessionId

SendDone == NonUndergraduate /\ pc = "done"

(* ---------------- C4 ---------------- *)

\* C4: on the non-undergraduate path no upstream failure makes sendMessage
\* throw; a failed side yields its placeholder ("<SIDE> request failed: s" or
\* "<SIDE> request error: <message>", empty history, the caller's sessionId);
\* when both sides were requested the text returned is
\* "[RUH]\n<RUH text>\n\n[UGC]\n<UGC text>" with the placeholder's text as the
\* failed side's text; when the sole requested side failed the placeholder
\* itself is returned.
C4_Placeholders ==
    SendDone =>
        /\ result.kind = "return"
        /\ \A side \in {"ruh", "ugc"} :
              Requested(side) /\ Failed(side) => JsonOf(side) = SideResult(side)
        /\ Requested("ruh") /\ Requested("ugc") /\ (Failed("ruh") \/ Failed("ugc")) =>
              result.value.response = CombinedText
        /\ \A side \in {"ruh", "ugc"} :
              Endpoints(op.onlyUseRuh) = {side} /\ Failed(side) =>
                  result = Return(SideResult(side))

\* the parts of C4 that hold of the code: nothing is thrown, every failed side
\* leaves its placeholder, and a sole failed side's placeholder is returned
C4_HoldsOfCode ==
    SendDone =>
        /\ result.kind = "return"
        /\ \A side \in {"ruh", "ugc"} :
              Requested(side) /\ Failed(side) => JsonOf(side) = SideResult(side)
        /\ \A side \in {"ruh", "ugc"} :
              Endpoints(op.onlyUseRuh) = {side} /\ Failed(side) =>
                  result = Return(SideResult(side))

(* ---------------- C5 ---------------- *)

\* C5: with onlyUseRuh true (false), whatever the single call's outcome, the
\* value returned is exactly that side's result (the parsed body, or the
\* side's placeholder) and never a Combined object; with both sides requested
\* the value returned is always the Combined object.
C5_Selection ==
    SendDone =>
        /\ \A side \in {"ruh", "ugc"} :
              Endpoints(op.onlyUseRuh) = {side} =>
                  /\ result = Return(SideResult(side))
                  /\ ~IsCombined(result.value)
        /\ Requested("ruh") /\ Requested("ugc") =>
              /\ result.kind = "return"
              /\ IsCombined(result.value)
              /\ result.value.response = CombinedText

(* ---------------- C6 ---------------- *)

\* C6: when both endpoints are queried the returned conversation_history is
\* the RUH result's history followed by the UGC result's history (a failed
\* side contributing none), and the returned session_id is the first non-empty
\* of the RUH session_id, the UGC session_id and the caller's sessionId.
C6_HistoryAndSession ==
    SendDone /\ Requested("ruh") /\ Requested("ugc") =>
        /\ result.kind = "return"
        /\ result.value.conversation_history =
              HistoryOf(SideResult("ruh")) \o HistoryOf(SideResult("ugc"))
        /\ \A side \in {"ruh", "ugc"} :
              Failed(side) => HistoryOf(SideResult(side)) = <<>>
        /\ result.value.session_id = FirstSession

\* C6 where both sides left a value that is not null: the code's Combined
\* object is built and the statement holds
C6_HoldsWhenBothPresent ==
    SendDone /\ Requested("ruh") /\ Requested("ugc")
    /\ TruthyJson(ruhRespJson) /\ TruthyJson(ugcRespJson) =>
        /\ result.value.conversation_history =
              HistoryOf(SideResult("ruh")) \o HistoryOf(SideResult("ugc"))
        /\ result.value.session_id = FirstSession

(* ---------------- C7 ---------------- *)

\* a uniform forwarding operation, or the undergraduate path of sendMessage,
\* has finished with a response
ForwardedDone == pc = "done" /\ responsePromise.state = "fulfilled"

\* the stored token once a response has been through rotation and the auth
\* check, given the token stored when it arrived
TokenAfter(r, before) ==
    IF AuthFailure(r) THEN NoToken
    ELSE IF r.header # NoHeader THEN r.header
    ELSE before

\* the failure half of C7: a non-success status s fails the operation with an
\* error carrying s after one attempt, the token already rotated and, on
\* 401/403, already cleared and auth:logout already broadcast
C7_Failure ==
    ForwardedDone /\ ~Ok(responsePromise.value.status) =>
        /\ result = Throw(HttpError(responsePromise.value.status))
        /\ Len(sent) = profileCalls * (IF prior = NoToken THEN 0 ELSE 1) + 1
        /\ token = TokenAfter(responsePromise.value, prior)
        /\ events = IF AuthFailure(responsePromise.value)
                    THEN <<Logout(responsePromise.value.status)>> ELSE <<>>

\* C7 as stated: ... and on a success status every one of these operations
\* returns the parsed body and broadcasts nothing.
C7_FailOrReturnBody ==
    /\ C7_Failure
    /\ ForwardedDone /\ Ok(responsePromise.value.status) =>
          /\ events = <<>>
          /\ responsePromise.value.body # InvalidJson =>
                result = Return(responsePromise.value.body)

\* C7 amended: ... on a success status the operation broadcasts nothing and
\* returns the parsed body, except that sendFeedback returns nothing (it never
\* reads the body).
C7_FailOrReturn ==
    /\ C7_Failure
    /\ ForwardedDone /\ Ok(responsePromise.value.status) =>
          /\ events = <<>>
          /\ op.name = "sendFeedback" => result = Return(JsUndefined)
          /\ op.name # "sendFeedback" /\ responsePromise.value.body # InvalidJson =>
                result = Return(responsePromise.value.body)

\* createNewChatSession got a 403 carrying x-access-token: T2 and has thrown
C7_Witness ==
    /\ ForwardedDone
    /\ op.name = "createNewChatSession"
    /\ responsePromise.value.status = 403
    /\ responsePromise.value.header = "T2"
    /\ prior = "T1"
    /\ result = Throw(HttpError(403))
    /\ token = NoToken
    /\ events = <<Logout(403)>>

(* ---------------- C8 ---------------- *)

UserIdOps ==
    {"createNewChatSession", "sendFeedback", "getChatHistory", "getChatSessions",
     "routeLatest"}

\* the operation's own request (the last one sent)
OwnRequest == sent[Len(sent)]

\* C8: each operation that accepts a userId, called without one, makes an
\* identity lookup and sends the resolved identity as user_id; called with
\* one, it makes no lookup and sends that userId; getChatHistory and
\* getChatSessions omit user_id when the resolved identity is null.
C8_UserIdResolution ==
    op.name \in UserIdOps /\ Classified =>
        /\ op.userId = Undefined =>
              /\ profileCalls = 1
              /\ \/ OwnRequest.user_id = userEmail
                 \/ userEmail = Null /\ OwnRequest.user_id = Omitted
        /\ Truthy(op.userId) =>
              /\ profileCalls = 0
              /\ OwnRequest.user_id = op.userId
        /\ op.name \in {"getChatHistory", "getChatSessions"}
           /\ op.userId = Undefined /\ userEmail = Null =>
              OwnRequest.user_id = Omitted

\* C8 without sendFeedback, which holds of the code
C8_HoldsOfOthers ==
    op.name \in UserIdOps \ {"sendFeedback"} /\ Classified =>
        /\ op.userId = Undefined =>
              /\ profileCalls = 1
              /\ \/ OwnRequest.user_id = userEmail
                 \/ userEmail = Null /\ OwnRequest.user_id = Omitted
        /\ Truthy(op.userId) =>
              /\ profileCalls = 0
              /\ OwnRequest.user_id = op.userId
        /\ op.name \in {"getChatHistory", "getChatSessions"}
           /\ op.userId = Undefined /\ userEmail = Null =>
              OwnRequest.user_id = Omitted

(* ---------------- C9 ---------------- *)

\* the handling of the RUH response is complete: its block has assigned
\* ruhRespJson
RuhComplete ==
    \E i \in DOMAIN log :
        \/ log[i] \in {<<"ruh", "error">>, <<"ruh", "body">>}
        \/ log[i] = <<"ruh", "auth">> /\ ~Ok(ruhPromise.value.status)

\* both chat requests are out, each with the token stored at dispatch
BothDispatched ==
    /\ Len(sent) >= 2
    /\ sent[Len(sent) - 1] = ChatRequest("ruh", op, userEmail, prior)
    /\ sent[Len(sent)] = ChatRequest("ugc", op, userEmail, prior)

\* C9: on the dual-endpoint path both requests are dispatched, each with the
\* token stored at dispatch, before any response is handled; whatever the
\* order in which the calls settle, the RUH response's rotation, auth check
\* and body extraction are complete before the handling of the UGC response
\* begins; and until then nothing but the handling of the RUH response
\* changes the stored token or the broadcasts.
C9_SerializedHandling ==
    /\ [](Dual =>
            /\ BothDispatched
            /\ \A i, j \in DOMAIN log :
                  i < j /\ log[i][1] = "ugc" => log[j][1] = "ugc"
            /\ (\E i \in DOMAIN log : log[i][1] = "ugc") => RuhComplete)
    /\ [][Dual /\ ~RuhComplete /\ (token' # token \/ events' # events)
            => Handling("ruh")]_vars

\* UGC settled first with a rotation header and a 403, RUH second; at the
\* return the log still shows all of RUH's handling before any of UGC's
C9_Witness ==
    /\ Dual /\ pc = "done"
    /\ settled = <<"ugc", "ruh">>
    /\ ugcPromise.state = "fulfilled"
    /\ ugcPromise.value.status = 403
    /\ ugcPromise.value.header = "T2"
    /\ log = << <<"ruh", "rotate">>, <<"ruh", "auth">>, <<"ruh", "body">>,
                <<"ugc", "rotate">>, <<"ugc", "auth">> >>

(* ---------------- C10 ---------------- *)

\* the response changes the stored token
Affects(promise) ==
    /\ promise.state = "fulfilled"
    /\ promise.value.header # NoHeader \/ AuthFailure(promise.value)

\* the token it leaves
EffectOf(promise) ==
    IF AuthFailure(promise.value) THEN NoToken ELSE promise.value.header

\* C10: when the dual-endpoint sendMessage returns, the stored token is the
\* UGC response's effect if that response carries x-access-token or is a
\* 401/403, otherwise the RUH response's effect, otherwise the prior token,
\* whatever the order in which the two calls settled; so a RUH 401/403
\* followed by a UGC success carrying T leaves T stored although auth:logout
\* was broadcast.
C10_TokenAtReturn ==
    Dual /\ pc = "done" =>
        /\ token = IF Affects(ugcPromise) THEN EffectOf(ugcPromise)
                   ELSE IF Affects(ruhPromise) THEN EffectOf(ruhPromise)
                   ELSE prior
        /\ (/\ ruhPromise.state = "fulfilled" /\ AuthFailure(ruhPromise.value)
            /\ ugcPromise.state = "fulfilled" /\ Ok(ugcPromise.value.status)
            /\ ugcPromise.value.header # NoHeader)
           => /\ token = ugcPromise.value.header
              /\ events = <<Logout(ruhPromise.value.status)>>

\* RUH answered 401, UGC answered 200 with x-access-token: T2 and settled
\* first: T2 is stored at the return, after an auth:logout
C10_Witness ==
    /\ Dual /\ pc = "done"
    /\ settled = <<"ugc", "ruh">>
    /\ ruhPromise.state = "fulfilled" /\ ruhPromise.value.status = 401
    /\ ugcPromise.state = "fulfilled" /\ ugcPromise.value.status = 200
    /\ ugcPromise.value.header = "T2"
    /\ prior = "T1"
    /\ token = "T2"
    /\ events = <<Logout(401)>>

====
